---- MODULE Spec2Model ----
(***************************************************************************)
(* A model of engine.py: the Monte Carlo tree search (Node, rollout_policy, *)
(* UCT), the opening-book lookup (get_opening_move) and the decision step   *)
(* of play_game, for both the base and the "quantum" variant of the file.   *)
(*                                                                          *)
(* chess.Board is an external collaborator.  The search is checked over a   *)
(* small finite stand-in game with the same interface (legal_moves, push,   *)
(* is_game_over, result, turn, move_stack and the tactical predicates):     *)
(* a pile of counters from which the side to move takes one or more.        *)
(* As in python-chess, a position can be over while it still has legal      *)
(* moves (a dead draw), and push does not refuse a move in such a position. *)
(*                                                                          *)
(* Node.wins is a multiple of 0.5 in the code; the model stores it in half  *)
(* points (twice the code's value) so that it stays an integer.             *)
(***************************************************************************)
EXTENDS Integers, Sequences, FiniteSets, TLC

VARIABLES
    variant,      \* which half of engine.py runs: "base" or "quantum"
    rootstate,    \* UCT's argument rootstate (the caller's board)
    itermax,      \* UCT's argument itermax
    nodes,        \* the heap of Node objects; nodes[1] is rootnode
    iter,         \* iterations of "for _ in range(itermax)" completed
    node,         \* UCT's local variable node (an index into nodes, None = 0)
    state,        \* UCT's local variable state (the working copy of the board)
    pc,           \* where UCT's control is
    ret,          \* the value UCT returned (a move), None before it returns
    shared,       \* whether state is the very object rootstate is (no copy)
    caller,       \* the caller's board as it was when UCT was called
    picked,       \* the last expansion pick: who picked, what, and from what
    bp,           \* this iteration's backpropagation: the heap before it, the
                  \* node it began at, the nodes updated so far in order
    passes,       \* per node, the iterations whose path passed through it
    rollout,      \* a call of rollout_policy on its own: its board and its outcome
    upd,          \* calls of Node.Update on one node: the node before and after
    game          \* play_game: the board's move stack and the last decision

\* the state of a call of UCT
search == <<variant, rootstate, itermax, nodes, iter, node, state, pc, ret,
            shared, caller, picked, bp, passes>>
\* the state of the calls checked on their own
units == <<rollout, upd, game>>
vars == <<search, units>>

----------------------------------------------------------------------------
(* Bounds of the model *)

\* the largest pile a root position starts with
MaxPile == 5
\* the largest iteration count a search is called with
MaxIter == 6
\* the most legal moves of a board rollout_policy is called on by itself
MaxMoves == 2
\* the most calls of Node.Update made on one node by themselves
MaxUpdates == 5
\* the most plies play_game is followed for
MaxPlies == 4

----------------------------------------------------------------------------
(* Python values *)

\* None, for a move and for a node reference
None == 0

WHITE == TRUE
BLACK == FALSE

Abs(a) == IF a >= 0 THEN a ELSE -a

RECURSIVE SumSeq(_)
SumSeq(s) == IF s = <<>> THEN 0 ELSE Head(s) + SumSeq(Tail(s))

\* list.remove(x): the list without the first occurrence of x
RECURSIVE ListRemove(_, _)
ListRemove(s, x) ==
    IF s = <<>> THEN <<>>
    ELSE IF Head(s) = x THEN Tail(s)
    ELSE <<Head(s)>> \o ListRemove(Tail(s), x)

SeqToSet(s) == {s[i] : i \in 1..Len(s)}

\* One step of a stable insertion: where key k goes into the sorted list of
\* keys ks, after every key that is not greater
RECURSIVE InsertPos(_, _, _)
InsertPos(ks, perm, k) ==
    IF perm = <<>> THEN 0
    ELSE IF ks[perm[Len(perm)]] <= k THEN Len(perm)
    ELSE InsertPos(ks, SubSeq(perm, 1, Len(perm) - 1), k)

\* sorted(xs, key=...) as the permutation of the indices of xs, given the
\* keys of xs in order: Python's sort is stable, equal keys keep their order
RECURSIVE SortedPerm(_, _)
SortedPerm(ks, n) ==
    IF n = 0 THEN <<>>
    ELSE LET before == SortedPerm(ks, n - 1)
             p == InsertPos(ks, before, ks[n])
         IN  SubSeq(before, 1, p) \o <<n>> \o SubSeq(before, p + 1, Len(before))

\* sorted(xs, key=...)[-1], given the keys of xs; xs must not be empty
SortedLast(xs, ks) == xs[SortedPerm(ks, Len(ks))[Len(ks)]]

----------------------------------------------------------------------------
(* chess.Board: the stand-in game *)

\* the most counters one move takes
MaxTake == 3

\* the pile at which the position is a dead draw (is_game_over() is true
\* although legal moves remain, as with insufficient material)
DeadPile == 1

Moves == 1..MaxTake

Board(p, t, ms) == [pile |-> p, turn |-> t, move_stack |-> ms]

\* list(board.legal_moves), in the generator's order
legal_moves(b) ==
    LET n == IF b.pile <= 0 THEN 0 ELSE IF b.pile < MaxTake THEN b.pile ELSE MaxTake
    IN  [i \in 1..n |-> i]

\* board.push(move): no legality check, as in python-chess
push(b, m) == Board(b.pile - m, ~b.turn, Append(b.move_stack, m))

\* board.copy()
copy(b) == Board(b.pile, b.turn, b.move_stack)

is_game_over(b) == legal_moves(b) = <<>> \/ b.pile = DeadPile

\* board.result(): "*" while the game is not over
result(b) ==
    IF ~is_game_over(b) THEN "*"
    ELSE IF b.pile = DeadPile THEN "1/2-1/2"
    ELSE IF b.turn = WHITE THEN "0-1"
    ELSE "1-0"

(* The tactical predicates rollout_policy asks of the board.  The table is
   chosen so that move weights of every sign, and totals of every sign, occur
   among the positions of the stand-in game. *)
is_capture(b, m) == m = 2 /\ b.pile >= 3
is_check(b) == b.pile = 3 /\ b.turn = BLACK
gives_check(b, m) == b.pile - m = 3 /\ b.turn = WHITE
\* a legal move never leaves the mover's own king in check
is_into_check(b, m) == FALSE
is_pinned(b, m) == (m = 1 /\ b.pile = 2) \/ (m = 3 /\ b.pile = 4)
is_castling(b, m) == m = 1 /\ b.pile >= 4 /\ Len(b.move_stack) <= 1
to_development_square(b, m) == m = 2 /\ b.pile = 2 /\ b.turn = WHITE

\* what rollout_policy reads of the board about one move
Tactics(b, m) ==
    [ capture |-> is_capture(b, m),
      check |-> is_check(b),
      gives_check |-> gives_check(b, m),
      into_check |-> is_into_check(b, m),
      pinned |-> is_pinned(b, m),
      castling |-> is_castling(b, m),
      development |-> to_development_square(b, m) ]

\* the same for every legal move, in the order of board.legal_moves
TacticsOf(b) == [i \in 1..Len(legal_moves(b)) |-> Tactics(b, legal_moves(b)[i])]

----------------------------------------------------------------------------
(* class Node *)

\* Node.__init__ with the move argument dropped: the node keeps move=None
NewNodeWithoutMove(m, parent, s) ==
    [ move |-> None,
      parentNode |-> parent,
      childNodes |-> <<>>,
      wins |-> 0,
      visits |-> 0,
      untriedMoves |-> legal_moves(s),
      playerJustMoved |-> s.turn ]

\* a Node.__init__ that counts the creation of the node as a visit
NewNodeVisitedOnce(m, parent, s) ==
    [ move |-> m,
      parentNode |-> parent,
      childNodes |-> <<>>,
      wins |-> 0,
      visits |-> 1,
      untriedMoves |-> legal_moves(s),
      playerJustMoved |-> s.turn ]

\* Node.__init__(move, parent, state)
NewNode(m, parent, s) ==
    [ move |-> m,
      parentNode |-> parent,
      childNodes |-> <<>>,
      wins |-> 0,
      visits |-> 0,
      untriedMoves |-> legal_moves(s),
      playerJustMoved |-> s.turn ]

\* floor(10^7 * sqrt(2*log(N)/v)) for N, v in 1..10: the exploration term of
\* the UCT value, in the fixed point the model compares UCT values in
SqrtTwoLogOver ==
    << <<0, 0, 0, 0, 0, 0, 0, 0, 0, 0>>,
       <<11774100, 8325546, 6797779, 5887050, 5265537, 4806756, 4450191, 4162773, 3924700, 3723297>>,
       <<14823038, 10481470, 8558085, 7411519, 6629064, 6051479, 5602581, 5240735, 4941012, 4687456>>,
       <<16651092, 11774100, 9613512, 8325546, 7446594, 6797779, 6293521, 5887050, 5550364, 5265537>>,
       <<17941225, 12686362, 10358371, 8970612, 8023560, 7324474, 6781145, 6343181, 5980408, 5673513>>,
       <<18930184, 13385661, 10929347, 9465092, 8465835, 7728215, 7154937, 6692830, 6310061, 5986250>>,
       <<19727697, 13949588, 11389791, 9863848, 8822494, 8053798, 7456368, 6974794, 6575899, 6238445>>,
       <<20393339, 14420268, 11774100, 10196669, 9120178, 8325546, 7707957, 7210134, 6797779, 6448940>>,
       <<20962941, 14823038, 12102959, 10481470, 9374912, 8558085, 7923247, 7411519, 6987647, 6629064>>,
       <<21459660, 15174271, 12389740, 10729830, 9597051, 8760869, 8110989, 7587135, 7153220, 6786140>> >>

\* the fixed point's unit: 10^7 stands for 1.0
FixedOne == 10000000

\* The sort key of UCTSelectChild for child c of a node with parentVisits
\* visits: c.wins/c.visits + sqrt(2*log(self.visits)/c.visits).  Within the
\* model's bounds two keys that differ differ by more than 6e-5, and two keys
\* are equal only for equal (wins, visits), so the fixed point orders them
\* as the floats do.  (c.wins is in half points.)
UCTKey(c, parentVisits) ==
    (c.wins * FixedOne) \div (2 * c.visits) + SqrtTwoLogOver[parentVisits][c.visits]

\* a UCTSelectChild written with max(): the first of the best children
UCTSelectFirstBest(ns, n) ==
    LET cs == ns[n].childNodes
        key(i) == UCTKey(ns[cs[i]], ns[n].visits)
    IN  cs[CHOOSE i \in 1..Len(cs) :
              /\ \A j \in 1..Len(cs) : key(j) <= key(i)
              /\ \A j \in 1..(i - 1) : key(j) < key(i)]

\* Node.UCTSelectChild on nodes[n]: the index of the selected child
UCTSelectChild(ns, n) ==
    LET cs == ns[n].childNodes
    IN  SortedLast(cs, [i \in 1..Len(cs) |-> UCTKey(ns[cs[i]], ns[n].visits)])

\* Node.AddChild without self.untriedMoves.remove(m)
AddChildKeepingUntried(ns, n, m, s) ==
    LET c == Len(ns) + 1
        grown == Append(ns, NewNode(m, n, s))
    IN  [grown EXCEPT ![n].childNodes = Append(@, c)]

\* Node.AddChild(m, s) on nodes[n]: the heap after it; the new node is the
\* last one
AddChild(ns, n, m, s) ==
    LET c == Len(ns) + 1
        grown == Append(ns, NewNode(m, n, s))
    IN  [grown EXCEPT ![n].untriedMoves = ListRemove(@, m),
                      ![n].childNodes = Append(@, c)]

\* Node.Update scoring a decided game two points instead of one
UpdateTwoPoints(nd, res) ==
    [nd EXCEPT !.visits = @ + 1,
               !.wins = IF res = "1-0" THEN @ + 4
                        ELSE IF res = "0-1" THEN @ - 4
                        ELSE IF res = "1/2-1/2" THEN @ + 1
                        ELSE @]

\* an Update that scores the game for the player who moved into the node
UpdateForMover(nd, res) ==
    [nd EXCEPT !.visits = @ + 1,
               !.wins = IF res = "1/2-1/2" THEN @ + 1
                        ELSE IF (res = "1-0") = (nd.playerJustMoved = WHITE) THEN @ + 2
                        ELSE @ - 2]

\* an Update that counts the visit inside the two decisive branches only
UpdateDrawUncounted(nd, res) ==
    IF res = "1-0" THEN [nd EXCEPT !.visits = @ + 1, !.wins = @ + 2]
    ELSE IF res = "0-1" THEN [nd EXCEPT !.visits = @ + 1, !.wins = @ - 2]
    ELSE IF res = "1/2-1/2" THEN [nd EXCEPT !.wins = @ + 1]
    ELSE nd

\* Node.Update(result) on one node; an unrecognised result changes visits only
Update(nd, res) ==
    [nd EXCEPT !.visits = @ + 1,
               !.wins = IF res = "1-0" THEN @ + 2
                        ELSE IF res = "0-1" THEN @ - 2
                        ELSE IF res = "1/2-1/2" THEN @ + 1
                        ELSE @]

----------------------------------------------------------------------------
(* rollout_policy *)

\* the heuristic adjustments, lines 40-57 (230-245 in the quantum variant)
BaseWeight == 1
CaptureBonus == 10
InCheckBonus == 5
GivesCheckBonus == 5
IntoCheckPenalty == 20
PinnedPenalty == 5
CastlingBonus == 5
DevelopmentBonus == 3

\* weights[move] after the loop over the legal moves, for a move with
\* tactics t; the quantum variant has no development squares
Weight(v, t) ==
    BaseWeight
    + (IF t.capture THEN CaptureBonus ELSE 0)
    + (IF t.check THEN InCheckBonus ELSE 0)
    + (IF t.gives_check THEN GivesCheckBonus ELSE 0)
    - (IF t.into_check THEN IntoCheckPenalty ELSE 0)
    - (IF t.pinned THEN PinnedPenalty ELSE 0)
    + (IF t.castling THEN CastlingBonus ELSE 0)
    + (IF v = "base" /\ t.development THEN DevelopmentBonus ELSE 0)

\* [weights[move] for move in moves], given the tactics of the legal moves
Weights(v, ts) == [i \in 1..Len(ts) |-> Weight(v, ts[i])]

\* p / total_weight, kept as a fraction
Probability(p, total) == [num |-> p, den |-> total]

\* whether the fraction q is negative
Negative(q) == (q.num < 0 /\ q.den > 0) \/ (q.num > 0 /\ q.den < 0)

\* the running sum that itertools.accumulate reaches at position n
RECURSIVE Accumulated(_, _)
Accumulated(ps, n) == IF n = 0 THEN 0 ELSE Accumulated(ps, n - 1) + ps[n].num

\* itertools.accumulate over fractions of one denominator: the numerators
Accumulate(ps) == [i \in 1..Len(ps) |-> Accumulated(ps, i)]

(* random() * total < cum, for cum = c/den and total = 1: the draw x of
   random() is known by r = floor(x * |den|), in 0..|den|-1, and as c is an
   integer x < c/den is  r < c  for den > 0  and  r < -c  for den < 0 *)
DrawBelow(r, c, den) == IF den > 0 THEN r < c ELSE r < -c

\* bisect.bisect_right(cum_weights, x, lo, hi), on 0-based positions
RECURSIVE Bisect(_, _, _, _, _)
Bisect(cum, den, r, lo, hi) ==
    IF lo >= hi THEN lo
    ELSE LET mid == (lo + hi) \div 2
         IN  IF DrawBelow(r, cum[mid + 1], den)
             THEN Bisect(cum, den, r, lo, mid)
             ELSE Bisect(cum, den, r, mid + 1, hi)

\* random.choices(moves, probabilities)[0] for the draw r: no check that the
\* weights are non-negative, the cumulative sums are searched as they are
RandomChoices(moves, ps, r) ==
    moves[Bisect(Accumulate(ps), ps[1].den, r, 0, Len(moves) - 1) + 1]

\* random.choice(xs) for the draw r in 0..len(xs)-1
RandomChoice(xs, r) == xs[r + 1]

\* the draws of the random source that rollout_policy tells apart
RolloutDraws(v, ts) ==
    LET total_weight == SumSeq(Weights(v, ts))
    IN  IF total_weight = 0 THEN 0..(Len(ts) - 1) ELSE 0..(Abs(total_weight) - 1)

\* the guard of the uniform fallback, line 62 (250)
Degenerate(total_weight) == total_weight = 0

(* rollout_policy on a board with legal moves `moves` whose tactics are ts,
   for the draw r: the sampler it used, the weights it handed to
   random.choices (none when it used random.choice) and the move returned *)
rollout_policy(v, moves, ts, r) ==
    LET probabilities == Weights(v, ts)
        total_weight == SumSeq(probabilities)
        normalised == [i \in 1..Len(ts) |-> Probability(probabilities[i], total_weight)]
    IN  IF Degenerate(total_weight)
        THEN [sampler |-> "choice", handed |-> <<>>, total |-> total_weight,
              move |-> RandomChoice(moves, r)]
        ELSE [sampler |-> "choices", handed |-> normalised, total |-> total_weight,
              move |-> RandomChoices(moves, normalised, r)]

\* the moves rollout_policy(board) can return
RolloutMoves(v, b) ==
    {rollout_policy(v, legal_moves(b), TacticsOf(b), r).move : r \in RolloutDraws(v, TacticsOf(b))}

----------------------------------------------------------------------------
(* UCT *)

Variants == {"base", "quantum"}

\* the value of a variable of a call that is not running
Idle == "idle"

\* the backpropagation loop stopping below the root
BackpropStopsBelowRoot(ns, n) == n /= None /\ ns[n].parentNode /= None

\* the condition of the backpropagation loop, line 93 (277)
BackpropContinues(ns, n) == n /= None

\* grover_search(moves): the index measured is any index of moves
\* (never reached: quantum_selection is called with untried moves only)
grover_search(moves) == SeqToSet(moves)

\* the moves the expansion step can pick at node n: random.choice of the
\* untried moves (line 85), or quantum_selection (lines 224-228)
ExpansionPicks(v, ns, n) ==
    IF v = "base" THEN SeqToSet(ns[n].untriedMoves)
    ELSE IF ns[n].untriedMoves /= <<>> THEN SeqToSet(ns[n].untriedMoves)
    ELSE grover_search([i \in 1..Len(ns[n].childNodes) |-> ns[ns[n].childNodes[i]].move])

\* the first of the most visited root children, as max(..., key=visits) gives
FirstMostVisitedMove(ns) ==
    LET cs == ns[1].childNodes
        best == CHOOSE i \in 1..Len(cs) :
                    /\ \A j \in 1..Len(cs) : ns[cs[j]].visits <= ns[cs[i]].visits
                    /\ \A j \in 1..(i - 1) : ns[cs[j]].visits < ns[cs[i]].visits
    IN  ns[cs[best]].move

\* the return expression: sorted(rootnode.childNodes, key=visits)[-1].move
RobustChildMove(ns) ==
    LET cs == ns[1].childNodes
    IN  ns[SortedLast(cs, [i \in 1..Len(cs) |-> ns[cs[i]].visits])].move

\* who picks the move of the expansion step at node n: random.choice (line 85,
\* and line 226 inside quantum_selection) or grover_search (line 228)
ExpansionBy(v, ns, n) ==
    IF v = "base" \/ ns[n].untriedMoves /= <<>> THEN "random.choice" ELSE "grover_search"

\* no expansion pick in this iteration yet
NoPick == [by |-> "nobody", move |-> None, from |-> <<>>]

\* no backpropagation in this iteration yet
NoBackprop == [before |-> <<>>, from |-> None, updated |-> <<>>]

\* state = rootstate, without the copy: one object under two names
AliasedState(b) == [board |-> b, shared |-> TRUE]

\* state = rootstate.copy(): the board state names, and whether it is the
\* object rootstate names
WorkingState(b) == [board |-> copy(b), shared |-> FALSE]

\* what a push on the object state names does to the object rootstate names
RootAfterPush(b) == IF shared THEN b ELSE rootstate

\* rootnode = Node(state=rootstate), for every call the model covers
Init ==
    /\ variant \in Variants
    /\ rootstate \in {Board(p, t, <<>>) : p \in 0..MaxPile, t \in {WHITE, BLACK}}
    /\ itermax \in 0..MaxIter
    /\ nodes = <<NewNode(None, None, rootstate)>>
    /\ iter = 0
    /\ node = None
    /\ state = rootstate
    /\ pc = "for"
    /\ ret = None
    /\ shared = TRUE
    /\ caller = rootstate
    /\ picked = NoPick
    /\ bp = NoBackprop
    /\ passes = <<0>>
    /\ rollout = Idle /\ upd = Idle /\ game = Idle

\* a loop that copies the root state once, before the first iteration only
StartIterationOnSameState ==
    /\ pc = "for"
    /\ iter < itermax
    /\ node' = 1
    /\ state' = IF iter = 0 THEN WorkingState(rootstate).board ELSE state
    /\ shared' = WorkingState(rootstate).shared
    /\ pc' = "select"
    /\ picked' = NoPick
    /\ bp' = NoBackprop
    /\ passes' = [passes EXCEPT ![1] = @ + 1]
    /\ UNCHANGED <<variant, rootstate, itermax, nodes, iter, ret, caller, units>>

\* for _ in range(itermax): node = rootnode; state = rootstate.copy()
StartIteration ==
    /\ pc = "for"
    /\ iter < itermax
    /\ node' = 1
    /\ state' = WorkingState(rootstate).board
    /\ shared' = WorkingState(rootstate).shared
    /\ pc' = "select"
    /\ picked' = NoPick
    /\ bp' = NoBackprop
    /\ passes' = [passes EXCEPT ![1] = @ + 1]
    /\ UNCHANGED <<variant, rootstate, itermax, nodes, iter, ret, caller, units>>

\* a selection loop that descends as soon as the node has a child
HasChildren(nd) == nd.childNodes /= <<>>

\* the condition of the selection loop, line 80
FullyExpanded(nd) == nd.untriedMoves = <<>> /\ nd.childNodes /= <<>>

\* one pass of the selection loop
Select ==
    /\ pc = "select"
    /\ FullyExpanded(nodes[node])
    /\ node' = UCTSelectChild(nodes, node)
    /\ state' = push(state, nodes[node'].move)
    /\ rootstate' = RootAfterPush(state')
    /\ passes' = [passes EXCEPT ![node'] = @ + 1]
    /\ UNCHANGED <<variant, itermax, nodes, iter, pc, ret, shared, caller, picked, bp, units>>

\* the selection loop ends
SelectEnd ==
    /\ pc = "select"
    /\ ~FullyExpanded(nodes[node])
    /\ pc' = "expand"
    /\ UNCHANGED <<variant, rootstate, itermax, nodes, iter, node, state, ret,
                   shared, caller, picked, bp, passes, units>>

\* an expansion step without its condition
ExpandsAlways(nd) == TRUE

\* the condition of the expansion step, line 84 (268)
HasUntried(nd) == nd.untriedMoves /= <<>>

\* if node.untriedMoves != []: pick m, push it, add the child
Expand ==
    /\ pc = "expand"
    /\ HasUntried(nodes[node])
    /\ \E m \in ExpansionPicks(variant, nodes, node) :
          /\ state' = push(state, m)
          /\ nodes' = AddChild(nodes, node, m, state')
          /\ node' = Len(nodes')
          /\ picked' = [by |-> ExpansionBy(variant, nodes, node), move |-> m,
                        from |-> nodes[node].untriedMoves]
    /\ rootstate' = RootAfterPush(state')
    /\ passes' = Append(passes, 1)
    /\ pc' = "rollout"
    /\ UNCHANGED <<variant, itermax, iter, ret, shared, caller, bp, units>>

\* nothing to expand
ExpandSkip ==
    /\ pc = "expand"
    /\ ~HasUntried(nodes[node])
    /\ pc' = "rollout"
    /\ UNCHANGED <<variant, rootstate, itermax, nodes, iter, node, state, ret,
                   shared, caller, picked, bp, passes, units>>

\* a simulation loop that asks the policy for a move and never pushes it
RolloutWithoutPush ==
    /\ pc = "rollout"
    /\ ~is_game_over(state)
    /\ \E ts \in {TacticsOf(state)} : \E r \in RolloutDraws(variant, ts) :
          /\ rollout_policy(variant, legal_moves(state), ts, r).move
                \in SeqToSet(legal_moves(state))
          /\ state' = state
    /\ rootstate' = RootAfterPush(state')
    /\ UNCHANGED <<variant, itermax, nodes, iter, node, pc, ret,
                   shared, caller, picked, bp, passes, units>>

\* one pass of the simulation loop: state.push(rollout_policy(state))
Rollout ==
    /\ pc = "rollout"
    /\ ~is_game_over(state)
    /\ \E ts \in {TacticsOf(state)} : \E r \in RolloutDraws(variant, ts) :
          state' = push(state, rollout_policy(variant, legal_moves(state), ts, r).move)
    /\ rootstate' = RootAfterPush(state')
    /\ UNCHANGED <<variant, itermax, nodes, iter, node, pc, ret,
                   shared, caller, picked, bp, passes, units>>

\* the simulation loop ends
RolloutEnd ==
    /\ pc = "rollout"
    /\ is_game_over(state)
    /\ pc' = "backprop"
    /\ bp' = [before |-> nodes, from |-> node, updated |-> <<>>]
    /\ UNCHANGED <<variant, rootstate, itermax, nodes, iter, node, state, ret,
                   shared, caller, picked, passes, units>>

\* one pass of the backpropagation loop
Backprop ==
    /\ pc = "backprop"
    /\ BackpropContinues(nodes, node)
    /\ nodes' = [nodes EXCEPT ![node] = Update(@, result(state))]
    /\ node' = nodes[node].parentNode
    /\ bp' = [bp EXCEPT !.updated = Append(@, node)]
    /\ UNCHANGED <<variant, rootstate, itermax, iter, state, pc, ret,
                   shared, caller, picked, passes, units>>

\* the backpropagation loop ends, and with it the iteration
BackpropEnd ==
    /\ pc = "backprop"
    /\ ~BackpropContinues(nodes, node)
    /\ iter' = iter + 1
    /\ pc' = "for"
    /\ UNCHANGED <<variant, rootstate, itermax, nodes, node, state, ret,
                   shared, caller, picked, bp, passes, units>>

\* a return statement that answers None when the root has no child
ReturnWithDefault ==
    /\ pc = "for"
    /\ iter = itermax
    /\ ret' = IF nodes[1].childNodes = <<>> THEN None ELSE RobustChildMove(nodes)
    /\ pc' = "returned"
    /\ UNCHANGED <<variant, rootstate, itermax, nodes, iter, node, state,
                   shared, caller, picked, bp, passes, units>>

\* the return statement, with at least one root child
Return ==
    /\ pc = "for"
    /\ iter = itermax
    /\ nodes[1].childNodes /= <<>>
    /\ ret' = RobustChildMove(nodes)
    /\ pc' = "returned"
    /\ UNCHANGED <<variant, rootstate, itermax, nodes, iter, node, state,
                   shared, caller, picked, bp, passes, units>>

\* the return statement with no root child: [][-1] raises IndexError
ReturnFails ==
    /\ pc = "for"
    /\ iter = itermax
    /\ nodes[1].childNodes = <<>>
    /\ pc' = "IndexError"
    /\ UNCHANGED <<variant, rootstate, itermax, nodes, iter, node, state, ret,
                   shared, caller, picked, bp, passes, units>>

Next ==
    \/ StartIteration
    \/ Select
    \/ SelectEnd
    \/ Expand
    \/ ExpandSkip
    \/ Rollout
    \/ RolloutEnd
    \/ Backprop
    \/ BackpropEnd
    \/ Return
    \/ ReturnFails

Spec == Init /\ [][Next]_vars

\* UCT is one sequential call: while a statement is left to run, it runs
SpecFair == Spec /\ WF_vars(Next)

----------------------------------------------------------------------------
(* rollout_policy called by itself, on any board of up to MaxMoves legal moves *)

\* no call of UCT is running
SearchIdle ==
    /\ variant = Idle /\ rootstate = Idle /\ itermax = Idle /\ nodes = Idle
    /\ iter = Idle /\ node = Idle /\ state = Idle /\ pc = Idle /\ ret = Idle
    /\ shared = Idle /\ caller = Idle /\ picked = Idle /\ bp = Idle /\ passes = Idle

(* The tactics a chess position can give one of its legal moves, with the side
   to move in check or not: a legal move never leaves the mover's king in
   check; castling is a king move, so it is no capture, its origin is not
   pinned, its target is no development square and it is not legal in check;
   a pinned piece has no legal move while its king is in check. *)
BoardTactics(check) ==
    { t \in [ capture : BOOLEAN, check : {check}, gives_check : BOOLEAN,
              into_check : {FALSE}, pinned : BOOLEAN, castling : BOOLEAN,
              development : BOOLEAN ] :
        /\ t.castling => ~t.capture /\ ~t.pinned /\ ~t.development /\ ~check
        /\ t.pinned => ~check }

\* the boards rollout_policy is called on: the tactics of 1..MaxMoves legal moves
RolloutBoards ==
    UNION { [1..n -> BoardTactics(check)] : n \in 1..MaxMoves, check \in BOOLEAN }

\* rollout_policy has not returned yet
NoOutcome == [sampler |-> "none", handed |-> <<>>, total |-> 0, move |-> None]

InitRollout ==
    /\ SearchIdle
    /\ rollout \in { [v |-> v, ts |-> ts, out |-> NoOutcome] : v \in Variants, ts \in RolloutBoards }
    /\ upd = Idle
    /\ game = Idle

\* move = rollout_policy(board), the legal moves named by their position
RolloutPolicyCall ==
    /\ rollout.out = NoOutcome
    /\ \E r \in RolloutDraws(rollout.v, rollout.ts) :
          rollout' = [rollout EXCEPT !.out =
                        rollout_policy(rollout.v, [i \in 1..Len(rollout.ts) |-> i], rollout.ts, r)]
    /\ UNCHANGED <<search, upd, game>>

NextRollout == RolloutPolicyCall

SpecRollout == InitRollout /\ [][NextRollout]_vars

(* C5: no negative weight reaches random.choices: every weight rollout_policy
   hands to the weighted sampler is >= 0.  The code does not clamp the
   weights, so this is refuted. *)
C5_NoNegativeWeightReachesSampler ==
    rollout.out.sampler = "choices" =>
        \A i \in 1..Len(rollout.out.handed) : ~Negative(rollout.out.handed[i])

(* C6: whenever the sum of the weights is <= 0 the weighted sampler is not
   used and the move is chosen by random.choice.  The code falls back only
   when the sum is exactly 0, so this is refuted. *)
C6_NonPositiveTotalFallsBackToUniform ==
    (rollout.out /= NoOutcome /\ rollout.out.total <= 0) => rollout.out.sampler = "choice"

----------------------------------------------------------------------------
(* Node.Update called by itself, with any result value *)

\* the values of board.result(): the three outcomes and "*" (no outcome)
Results == {"1-0", "0-1", "1/2-1/2", "*"}
Recognised == {"1-0", "0-1", "1/2-1/2"}

\* Update has not been called yet
NotCalled == "not called"

InitUpdate ==
    /\ SearchIdle
    /\ rollout = Idle
    /\ upd = [ nd |-> NewNode(None, None, Board(MaxPile, WHITE, <<>>)),
               before |-> NewNode(None, None, Board(MaxPile, WHITE, <<>>)),
               given |-> NotCalled ]
    /\ game = Idle

\* node.Update(result)
UpdateCall ==
    /\ upd.nd.visits < MaxUpdates
    /\ \E res \in Results :
          upd' = [nd |-> Update(upd.nd, res), before |-> upd.nd, given |-> res]
    /\ UNCHANGED <<search, rollout, game>>

NextUpdate == UpdateCall

SpecUpdate == InitUpdate /\ [][NextUpdate]_vars

(* C7: Update given a result other than '1-0', '0-1' and '1/2-1/2' aborts: it
   never goes on with the node's visits incremented and its score left as it
   was.  The code has no else branch, so this is refuted. *)
C7_UnrecognisedResultAborts ==
    (upd.given /= NotCalled /\ upd.given \notin Recognised) =>
        ~(upd.nd.visits = upd.before.visits + 1 /\ upd.nd.wins = upd.before.wins)

----------------------------------------------------------------------------
(* play_game: the opening book and the decision step *)

\* the opening table, lines 99-125 (283-300); a repeated key keeps its last value
OPENINGS ==
    ("e4 e5" :> "Nf3") @@
    ("e4 e5 Nf3 Nc6" :> "Bb5") @@
    ("e4 e5 Nf3 Nc6 Bb5 Nf6" :> "O-O") @@
    ("e4 e5 Nf3 Nc6 Bb5 Nf6 O-O Nxe4" :> "d4") @@
    ("e4 e5 Nf3 Nc6 Bb5 Nf6 O-O Nxe4 d4 Nd6" :> "Bxc6") @@
    ("e4 e5 Nf3 Nc6 Bb5 Nf6 O-O Nxe4 d4 Nd6 Bxc6 dxc6" :> "dxe5") @@
    ("e4 e5 Nf3 Nc6 Bb5 Nf6 O-O Nxe4 d4 Nd6 Bxc6 dxc6 dxe5 Nf5" :> "Qxd8+") @@
    ("e4 e5 Nf3 Nc6 Bb5 Nf6 O-O Nxe4 d4 Nd6 Bxc6 dxc6 dxe5 Nf5 Qxd8+ Kxd8" :> "Nc3") @@
    ("e4 c5" :> "Nf3") @@
    ("e4 c5 Nf3 Nc6" :> "d4") @@
    ("e4 c5 Nf3 Nc6 d4 cxd4" :> "Nxd4") @@
    ("e4 c5 Nf3 Nc6 d4 cxd4 Nxd4 g6" :> "Nc3") @@
    ("e4 c5 Nf3 Nc6 d4 cxd4 Nxd4 g6 Nc3 Bg7" :> "Be3") @@
    ("e4 c5 Nf3 Nc6 d4 cxd4 Nxd4 g6 Nc3 Bg7 Be3 Nf6" :> "Bc4") @@
    ("e4 c5 Nf3 Nc6 d4 cxd4 Nxd4 Bg7" :> "Be3") @@
    ("e4 c5 Nf3 Nc6 d4 cxd4 Nxd4 Bg7 Be3 Nf6" :> "f3")

\* " ".join(texts)
RECURSIVE Join(_)
Join(texts) ==
    IF texts = <<>> THEN ""
    ELSE IF Len(texts) = 1 THEN texts[1]
    ELSE texts[1] \o " " \o Join(Tail(texts))

(* A chess.Move is named here by its UCI text, which is what str(move) gives:
   origin square then target square.  The moves play_game is followed over
   are opening moves that are legal whenever it is their side's turn and
   they have not been played, whatever else of them has been played. *)
WhiteOpeningMoves == {"e2e4", "d2d4", "g1f3", "b1c3"}
BlackOpeningMoves == {"e7e5", "c7c5", "b8c6", "g8f6"}

\* board.san(move) for these moves, in any of the positions they are legal in
San ==
    ("e2e4" :> "e4") @@ ("d2d4" :> "d4") @@ ("g1f3" :> "Nf3") @@ ("b1c3" :> "Nc3") @@
    ("e7e5" :> "e5") @@ ("c7c5" :> "c5") @@ ("b8c6" :> "Nc6") @@ ("g8f6" :> "Nf6")

\* str(move): Move.__str__ is Move.uci()
Str(move) == move

Squares == {f \o r : f \in {"a", "b", "c", "d", "e", "f", "g", "h"},
                     r \in {"1", "2", "3", "4", "5", "6", "7", "8"}}

\* the texts chess.Move.from_uci accepts: two squares, and a promotion piece
UciTexts ==
    {a \o b : a \in Squares, b \in Squares}
    \cup {a \o b \o p : a \in Squares, b \in Squares, p \in {"q", "r", "b", "n"}}

\* chess.Move.from_uci(text): the move, or ValueError for a text that is not UCI
from_uci(text) == IF text \in UciTexts THEN text ELSE "ValueError"

\* None where a move is named by its text
NoMove == "None"

\* get_opening_move(board), given board.move_stack
get_opening_move(move_stack) ==
    LET board_str == Join([i \in 1..Len(move_stack) |-> Str(move_stack[i])])
    IN  IF board_str \in DOMAIN OPENINGS THEN from_uci(OPENINGS[board_str]) ELSE NoMove

\* the opening moves legal after move_stack
LegalOpeningMoves(move_stack) ==
    (IF Len(move_stack) % 2 = 0 THEN WhiteOpeningMoves ELSE BlackOpeningMoves)
    \ SeqToSet(move_stack)

InitGame ==
    /\ SearchIdle
    /\ rollout = Idle
    /\ upd = Idle
    /\ game = [move_stack |-> <<>>, by |-> "nobody", pc |-> "while"]

(* One pass of the loop of play_game, lines 139-150: the book is asked first,
   then UCT(board, 50), which returns one of the legal moves (any of them
   here); the move is pushed.  An exception of from_uci ends play_game. *)
PlayMove ==
    /\ game.pc = "while"
    /\ Len(game.move_stack) < MaxPlies
    /\ LET opening_move == get_opening_move(game.move_stack)
       IN  IF opening_move = "ValueError"
           THEN game' = [game EXCEPT !.pc = "ValueError"]
           ELSE IF opening_move /= NoMove
           THEN game' = [game EXCEPT !.move_stack = Append(@, opening_move),
                                     !.by = "book"]
           ELSE \E move \in LegalOpeningMoves(game.move_stack) :
                    game' = [game EXCEPT !.move_stack = Append(@, move),
                                         !.by = "UCT"]
    /\ UNCHANGED <<search, rollout, upd>>

NextGame == PlayMove

SpecGame == InitGame /\ [][NextGame]_vars

\* the moves played before the last one, as the opening table writes them
PlayedBeforeLast ==
    Join([i \in 1..(Len(game.move_stack) - 1) |-> San[game.move_stack[i]]])

(* C4: when the moves played so far are a key of the opening table (as
   "e4 e5" is, mapped to "Nf3"), the decision step plays the mapped move, got
   from get_opening_move, and UCT is not called.  str(move) gives the UCI
   text ("e2e4"), never the table's notation, so this is refuted. *)
C4_BookMovePlayedWithoutSearch ==
    (game.by /= "nobody" /\ PlayedBeforeLast \in DOMAIN OPENINGS) =>
        /\ game.by = "book"
        /\ San[game.move_stack[Len(game.move_stack)]] = OPENINGS[PlayedBeforeLast]

----------------------------------------------------------------------------
(* The search: properties of UCT, checked under Spec *)

\* the moves from the root to node n, in order
RECURSIVE PathMoves(_, _)
PathMoves(ns, n) ==
    IF ns[n].parentNode = None THEN <<>>
    ELSE Append(PathMoves(ns, ns[n].parentNode), ns[n].move)

\* push every move of ms in turn
RECURSIVE PushAll(_, _)
PushAll(b, ms) == IF ms = <<>> THEN b ELSE PushAll(push(b, Head(ms)), Tail(ms))

\* the state node n was created from: the root state after the moves to n
NodeState(ns, n) == PushAll(rootstate, PathMoves(ns, n))

\* the moves of the children of node n, in creation order
ChildMoves(ns, n) == [i \in 1..Len(ns[n].childNodes) |-> ns[ns[n].childNodes[i]].move]

NoDuplicates(s) == \A i, j \in 1..Len(s) : s[i] = s[j] => i = j

(* C1: a call of UCT on a root state that is not over, with itermax >= 1,
   returns (it does not fail), and whatever UCT returns is one of the legal
   moves of the root state. *)
C1_ReturnsLegalMove ==
    /\ pc = "returned" => ret \in SeqToSet(legal_moves(rootstate))
    /\ pc = "IndexError" => (itermax = 0 \/ is_game_over(rootstate))

\* a search of several iterations, from a position with a choice, has returned
C1_Witness ==
    /\ pc = "returned"
    /\ ~is_game_over(rootstate)
    /\ itermax >= 2
    /\ Len(legal_moves(rootstate)) >= 2
    /\ ret \in SeqToSet(legal_moves(rootstate))

(* C2: at the end of the k-th iteration of the loop the root's visits is k,
   and after a search of N iterations it is N. *)
C2_RootVisitsCountIterations ==
    /\ pc = "for" => nodes[1].visits = iter
    /\ pc \in {"returned", "IndexError"} => nodes[1].visits = itermax

\* a search of at least three iterations has completed
C2_Witness == pc = "returned" /\ itermax >= 3 /\ nodes[1].visits = itermax

(* C3: the move returned is the move of a root child whose visits is maximal
   among the root children, and no root child created after it has as many
   visits: of several most visited children the last created is returned. *)
C3_RobustChildLastWins ==
    pc = "returned" =>
        \E i \in 1..Len(nodes[1].childNodes) :
            LET cs == nodes[1].childNodes IN
            /\ nodes[cs[i]].move = ret
            /\ \A j \in 1..Len(cs) : nodes[cs[j]].visits <= nodes[cs[i]].visits
            /\ \A j \in (i + 1)..Len(cs) : nodes[cs[j]].visits < nodes[cs[i]].visits

\* returned with two most visited root children: the later one was returned
C3_Witness ==
    /\ pc = "returned"
    /\ \E i, j \in 1..Len(nodes[1].childNodes) :
          LET cs == nodes[1].childNodes IN
          /\ j < i
          /\ nodes[cs[i]].move = ret
          /\ nodes[cs[j]].visits = nodes[cs[i]].visits
          /\ nodes[cs[i]].visits >= 2
          /\ \A k \in 1..Len(cs) : nodes[cs[k]].visits <= nodes[cs[i]].visits

(* C8: for every node, at every point of the search, the moves of its
   children followed by its untried moves hold every legal move of the state
   the node was created from exactly once; so it never has more children than
   that state has legal moves. *)
C8_ChildrenAndUntriedPartitionLegalMoves ==
    \A n \in 1..Len(nodes) :
        LET all == ChildMoves(nodes, n) \o nodes[n].untriedMoves
            legal == legal_moves(NodeState(nodes, n))
        IN  /\ NoDuplicates(all)
            /\ SeqToSet(all) = SeqToSet(legal)
            /\ Len(nodes[n].childNodes) <= Len(legal)

\* a node below the root with a child and an untried move, the root fully
\* expanded
C8_Witness ==
    /\ nodes[1].untriedMoves = <<>>
    /\ \E n \in 2..Len(nodes) :
          nodes[n].childNodes /= <<>> /\ nodes[n].untriedMoves /= <<>>

(* C9: for every node, at every point of the search, |wins| <= visits (wins
   is in half points here: |wins| <= 2 * visits), so wins/visits is within
   [-1, 1]. *)
C9_ScoreWithinVisits ==
    \A n \in 1..Len(nodes) : Abs(nodes[n].wins) <= 2 * nodes[n].visits

\* a node updated at least three times whose score is at the end of the range
C9_Witness ==
    \E n \in 1..Len(nodes) :
        nodes[n].visits >= 3 /\ Abs(nodes[n].wins) = 2 * nodes[n].visits

\* the loop of UCT is over: the return statement is next, or has been executed
LoopOver == (pc = "for" /\ iter = itermax) \/ pc \in {"returned", "IndexError"}

\* C11: when UCT is called with itermax = 0, or on a root state without legal
\* moves, the root has no child when the loop is over, and the call raises
\* instead of returning: no move, partial or default, is ever returned.
C11_NoChildNoMove ==
    (LoopOver /\ (itermax = 0 \/ legal_moves(caller) = <<>>)) =>
        /\ nodes[1].childNodes = <<>>
        /\ pc /= "returned"
        /\ ret = None

\* a call on a root without legal moves, with iterations to run, has raised
C11_Witness ==
    /\ pc = "IndexError"
    /\ itermax >= 2
    /\ legal_moves(caller) = <<>>
    /\ iter = itermax

\* C12: with L >= 1 legal moves at the root, after k iterations (1 <= k <= L)
\* the root has exactly k children, each with visits = 1, and L - k untried
\* moves; with L = 1 and one iteration, UCT returns the move of the only child.
C12_RootExpandedBeforeSelection ==
    LET L == Len(legal_moves(caller))
    IN  /\ (pc = "for" /\ iter >= 1 /\ iter <= L) =>
              /\ Len(nodes[1].childNodes) = iter
              /\ \A i \in 1..iter : nodes[nodes[1].childNodes[i]].visits = 1
              /\ Len(nodes[1].untriedMoves) = L - iter
        /\ (pc = "returned" /\ L = 1 /\ itermax = 1) =>
              /\ Len(nodes[1].childNodes) = 1
              /\ nodes[nodes[1].childNodes[1]].visits = 1
              /\ ret = nodes[nodes[1].childNodes[1]].move
              /\ <<ret>> = legal_moves(caller)

\* three iterations at a root with three legal moves: the root is just full
C12_Witness ==
    /\ pc = "for"
    /\ iter = 3
    /\ Len(legal_moves(caller)) = 3
    /\ Len(nodes[1].childNodes) = 3
    /\ nodes[1].untriedMoves = <<>>

\* the nodes from n up to the root, n first
RECURSIVE PathUp(_, _)
PathUp(ns, n) == IF n = None THEN <<>> ELSE <<n>> \o PathUp(ns, ns[n].parentNode)

\* what a finished game adds to wins, in half points
Delta(res) == IF res = "1-0" THEN 2 ELSE IF res = "0-1" THEN -2 ELSE 1

\* C13: the backpropagation of an iteration applies Update exactly once to
\* each node of the path from the node the simulation began at (the new node,
\* or the deepest selected node when nothing was expanded) up to and including
\* the root, in that order; each gets one more visit and the same outcome
\* delta whoever moved into it, and every other node is left as it was.  So a
\* node's visits count the iterations whose path passed through it.
C13_BackpropUpdatesPathOnce ==
    (pc = "for" /\ iter >= 1) =>
        /\ IF picked.by = "nobody"
             THEN PathMoves(nodes, bp.from) = state.move_stack
             ELSE bp.from = Len(nodes) /\ nodes[bp.from].move = picked.move
        /\ bp.updated = PathUp(nodes, bp.from)
        /\ Len(nodes) = Len(bp.before)
        /\ result(state) \in {"1-0", "0-1", "1/2-1/2"}
        /\ \A n \in 1..Len(nodes) :
              IF n \in SeqToSet(bp.updated)
              THEN nodes[n] = [bp.before[n] EXCEPT
                                 !.visits = @ + 1,
                                 !.wins = @ + Delta(result(state))]
              ELSE nodes[n] = bp.before[n]
        /\ \A n \in 1..Len(nodes) : nodes[n].visits = passes[n]

\* an iteration that black won has updated a path of three nodes, one of them
\* entered by white and one by black, and left a visited node untouched
C13_Witness ==
    /\ pc = "for"
    /\ iter >= 2
    /\ result(state) = "0-1"
    /\ Len(bp.updated) >= 3
    /\ nodes[bp.updated[1]].playerJustMoved /= nodes[bp.updated[2]].playerJustMoved
    /\ \E n \in 1..Len(nodes) : n \notin SeqToSet(bp.updated) /\ nodes[n].visits >= 1

\* C14: whenever UCTSelectChild is about to be invoked, the node has no
\* untried move, at least one child and visits >= 1, and every child has
\* visits >= 1: the UCT formula never divides by zero nor takes log of zero.
C14_SelectionOperandsPositive ==
    (pc = "select" /\ FullyExpanded(nodes[node])) =>
        /\ nodes[node].untriedMoves = <<>>
        /\ nodes[node].childNodes /= <<>>
        /\ nodes[node].visits >= 1
        /\ \A i \in 1..Len(nodes[node].childNodes) :
              nodes[nodes[node].childNodes[i]].visits >= 1

\* UCTSelectChild is about to be invoked on a node below the root
C14_Witness ==
    /\ pc = "select"
    /\ node /= 1
    /\ FullyExpanded(nodes[node])
    /\ nodes[node].visits >= 2

\* the position of child c in the childNodes of its parent
ChildIndex(ns, c) ==
    CHOOSE i \in 1..Len(ns[ns[c].parentNode].childNodes) :
        ns[ns[c].parentNode].childNodes[i] = c

\* C15: UCTSelectChild returns a child whose UCT value, wins / visits +
\* sqrt(2 ln(parent visits) / visits), is maximal among the children; among
\* children of equal maximal value it returns the most recently created.
C15_SelectsLastOfBest ==
    (pc \in {"select", "expand"} /\ node /= 1) =>
        LET p == nodes[node].parentNode
            cs == nodes[p].childNodes
            value(c) == UCTKey(nodes[c], nodes[p].visits)
            at == ChildIndex(nodes, node)
        IN  /\ \A j \in 1..Len(cs) : value(cs[j]) <= value(node)
            /\ \A j \in (at + 1)..Len(cs) : value(cs[j]) < value(node)

\* the selected child ties with an older sibling and beats another one
C15_Witness ==
    /\ pc = "select"
    /\ node /= 1
    /\ LET p == nodes[node].parentNode
           cs == nodes[p].childNodes
           value(c) == UCTKey(nodes[c], nodes[p].visits)
       IN  /\ \E j \in 1..(ChildIndex(nodes, node) - 1) : value(cs[j]) = value(node)
           /\ \E j \in 1..Len(cs) : value(cs[j]) < value(node)

\* C16: in the quantum variant no run reaches grover_search: quantum_selection
\* is called only on a node with at least one untried move, so it takes its
\* random.choice branch, and what it returns is one of node.untriedMoves.
C16_GroverSearchUnreachable ==
    variant = "quantum" =>
        /\ (pc = "expand" /\ HasUntried(nodes[node])) =>
              /\ nodes[node].untriedMoves /= <<>>
              /\ ExpansionBy(variant, nodes, node) = "random.choice"
        /\ picked.by /= "grover_search"
        /\ picked.by = "random.choice" =>
              /\ picked.from /= <<>>
              /\ picked.move \in SeqToSet(picked.from)

\* quantum_selection has picked one of several untried moves below the root
C16_Witness ==
    /\ variant = "quantum"
    /\ pc = "rollout"
    /\ picked.by = "random.choice"
    /\ Len(picked.from) >= 2
    /\ nodes[node].parentNode /= 1
    /\ nodes[node].move = picked.move

\* C17: every call of UCT terminates (the rollouts of the game do): each
\* selection descent ends, each backpropagation walk reaches the absent parent
\* of the root, exactly itermax iterations run, and then the call returns a
\* move or raises.
C17_EveryCallTerminates ==
    /\ <>(pc \in {"returned", "IndexError"} /\ iter = itermax)
    /\ (pc = "select") ~> (pc = "expand")
    /\ (pc = "backprop") ~> (pc = "for" /\ node = None)

\* a call with the most iterations has returned, having descended and
\* simulated on the way
C17_Witness ==
    /\ pc = "returned"
    /\ iter = MaxIter
    /\ itermax = MaxIter
    /\ Len(state.move_stack) >= 3
    /\ \E n \in 2..Len(nodes) : nodes[n].parentNode /= 1

\* C18: every move pushed on the working state is legal in that state when it
\* is pushed: the working state of selection and expansion is the root state
\* followed by the moves on the path from the root to the current node, so
\* the move of the selected child and every untried move are legal in it, and
\* the rollout draws its moves from the legal moves of the current state.
C18_PushedMovesAreLegal ==
    /\ pc \in {"select", "expand"} => state = NodeState(nodes, node)
    /\ (pc = "select" /\ FullyExpanded(nodes[node])) =>
          nodes[UCTSelectChild(nodes, node)].move \in SeqToSet(legal_moves(state))
    /\ (pc = "expand" /\ HasUntried(nodes[node])) =>
          ExpansionPicks(variant, nodes, node) \subseteq SeqToSet(legal_moves(state))
    /\ (pc = "rollout" /\ ~is_game_over(state)) =>
          /\ RolloutMoves(variant, state) /= {}
          /\ RolloutMoves(variant, state) \subseteq SeqToSet(legal_moves(state))

\* in a later iteration the expansion step is about to push one of several
\* untried moves, below the root
C18_Witness ==
    /\ pc = "expand"
    /\ iter >= 2
    /\ Len(state.move_stack) >= 1
    /\ Len(nodes[node].untriedMoves) >= 2
    /\ state = NodeState(nodes, node)

\* the visits of the children of node n, added up
ChildVisits(ns, n) ==
    SumSeq([i \in 1..Len(ns[n].childNodes) |-> ns[ns[n].childNodes[i]].visits])

\* C19: at the end of every iteration the visits of the root are the sum of
\* the visits of its children (when the root has a legal move), and every
\* other node whose state at creation had a legal move has visits equal to
\* 1 plus the sum of the visits of its children.
C19_VisitsAddUp ==
    (pc = "for" /\ iter >= 1) =>
        /\ legal_moves(caller) /= <<>> => nodes[1].visits = ChildVisits(nodes, 1)
        /\ \A n \in 2..Len(nodes) :
              legal_moves(NodeState(nodes, n)) /= <<>> =>
                  nodes[n].visits = 1 + ChildVisits(nodes, n)

\* an iteration has ended with a node below the root visited three times,
\* twice through its children, beside a sibling
C19_Witness ==
    /\ pc = "for"
    /\ Len(nodes[1].childNodes) >= 2
    /\ \E n \in 2..Len(nodes) :
          /\ nodes[n].visits = 3
          /\ ChildVisits(nodes, n) = 2

\* C20: UCT never mutates the rootstate of its caller: every iteration works
\* on a fresh copy, so during and after the call the caller's board has the
\* position and the move stack it had at the call, and each iteration starts
\* from that same root position.
C20_RootStateUntouched ==
    /\ rootstate = caller
    /\ (pc = "select" /\ node = 1) => state = caller

\* the call has returned after iterations that pushed moves on their states
C20_Witness ==
    /\ pc = "returned"
    /\ iter >= 3
    /\ Len(state.move_stack) >= 2
    /\ Len(nodes) >= 4
    /\ rootstate.move_stack = <<>>

====
